---- MODULE Spec2Model ----
(***************************************************************************)
(* A model of cspfun: the binary constraint model (csp.py), the backtracking *)
(* search over a priority frontier (backtracking_search.py) and the         *)
(* iterative-improvement local search (local_search.py).                    *)
(*                                                                          *)
(* Python lists are objects: an instance holds references to its domains    *)
(* list and its values list, and the two heaps below map a reference to the *)
(* list's contents, so that aliasing between copies is expressible.  The    *)
(* inner domain lists are never mutated in place by the code (they are      *)
(* always replaced), so they are modelled as values.  Variables are the     *)
(* integers 0..n-1 as in the code.                                          *)
(***************************************************************************)
EXTENDS Integers, Sequences, FiniteSets, TLC

\* ---------------------------------------------------------------- bounds
\* number of variables of the generated problems
NumVars == 3
\* the values of a full domain are 0..MaxVal
MaxVal == 1

\* Python's None, as a value or as "no instance"
None == -1
Val == 0..MaxVal
Pairs == {p \in (0..NumVars - 1) \X (0..NumVars - 1) : p[1] < p[2]}

\* ---------------------------------------------------------------- helpers
Elems(s) == {s[k] : k \in 1..Len(s)}
RECURSIVE SumSeq(_)
SumSeq(s) == IF s = <<>> THEN 0 ELSE Head(s) + SumSeq(Tail(s))
\* range(n) as a sequence
range(n) == [k \in 1..n |-> k - 1]
\* len() of a list object indexed from 0
len(f) == Cardinality(DOMAIN f)
\* the least reference that is not in use
NewId(used) == CHOOSE k \in 0..Cardinality(used) :
                   k \notin used /\ \A j \in 0..Cardinality(used) : j \notin used => k <= j

\* ---------------------------------------------------------------- predicates
\* A constraint is a binary predicate; it is modelled by the set of the pairs
\* of values it accepts.
Apply(constraint, a, b) == <<a, b>> \in constraint
neq == {p \in Val \X Val : p[1] # p[2]}
lt == {p \in Val \X Val : p[1] < p[2]}

\* ---------------------------------------------------------------- csp.py
\* A memory M is [d |-> heap of domains lists, v |-> heap of values lists,
\* c |-> heap of constraint tables]; an instance `self` is a record of the
\* references and flags that BinaryCSP.__init__ stores.
BinaryCSP(domains, values, constraints, use_forward_checking, use_arc_consistency) ==
    [domains |-> domains, values |-> values, constraints |-> constraints,
     use_forward_checking |-> use_forward_checking,
     use_arc_consistency |-> use_arc_consistency]

\* the None of a variable that holds an instance
NoInstance == BinaryCSP(None, None, None, FALSE, FALSE)

Domains(M, self) == M.d[self.domains]
Values(M, self) == M.v[self.values]
Constraints(M, self) == M.c[self.constraints]
VarsOf(M, self) == 0..(len(Values(M, self)) - 1)

\* copy with `self.domains, self.values` in place of the copies of the lists
copy_shared(M, self) ==
    [M |-> M,
     ret |-> BinaryCSP(self.domains, self.values, self.constraints,
                       self.use_forward_checking, self.use_arc_consistency)]

\* copy: new domains and values lists, the same constraint table and flags
copy(M, self) ==
    LET dnew == NewId(DOMAIN M.d)
        vnew == NewId(DOMAIN M.v)
    IN  [M |-> [M EXCEPT !.d = dnew :> Domains(M, self) @@ M.d,
                         !.v = vnew :> Values(M, self) @@ M.v],
         ret |-> BinaryCSP(dnew, vnew, self.constraints,
                           self.use_forward_checking, self.use_arc_consistency)]

\* the wrapper without the exchange of its arguments
Reversed_unswapped(original, a, b) == Apply(original, a, b)

\* the wrapper `lambda a, b: original(b, a)` of conflicted
Reversed(original, a, b) == Apply(original, b, a)

conflicted(M, self, var1, val1, var2, val2) ==
    LET lo == IF var1 < var2 THEN var1 ELSE var2
        hi == IF var1 < var2 THEN var2 ELSE var1
    IN  IF val1 = None \/ val2 = None THEN FALSE
        ELSE IF <<lo, hi>> \notin DOMAIN Constraints(M, self) THEN FALSE
        ELSE IF var1 < var2
             THEN ~Apply(Constraints(M, self)[<<var1, var2>>], val1, val2)
             ELSE ~Reversed(Constraints(M, self)[<<var2, var1>>], val1, val2)

num_conflicts(M, self, var, val) ==
    Cardinality({var2 \in VarsOf(M, self) \ {var} :
                    conflicted(M, self, var, val, var2, Values(M, self)[var2])})

\* total_conflicts without the division by 2
total_conflicts_unhalved(M, self) ==
    SumSeq([k \in 1..len(M.v[self.values]) |->
               num_conflicts(M, self, k - 1, M.v[self.values][k - 1])])

total_conflicts(M, self) ==
    SumSeq([k \in 1..len(Values(M, self)) |->
               num_conflicts(M, self, k - 1, Values(M, self)[k - 1])]) \div 2

is_complete(M, self) == \A var \in VarsOf(M, self) : Values(M, self)[var] # None

\* `[] != self.domains` for `[] not in self.domains`: the list of lists is not empty
is_consistent_whole_list(M, self) == DOMAIN M.d[self.domains] # {}

is_consistent(M, self) == \A var \in DOMAIN Domains(M, self) : Domains(M, self)[var] # <<>>

\* is_solution without the loop over the constraints
is_solution_complete_only(M, self) ==
    ~(\E var \in 0..(len(M.v[self.values]) - 1) : M.v[self.values][var] = None)

is_solution(M, self) ==
    IF \E var \in VarsOf(M, self) : Values(M, self)[var] = None THEN FALSE
    ELSE \A key \in DOMAIN Constraints(M, self) :
             Apply(Constraints(M, self)[key],
                   Values(M, self)[key[1]], Values(M, self)[key[2]])

\* the filter with `True not in` for `False in`: every value of head must agree
new_tail_domain_all(M, self, tail, head) ==
    SelectSeq(M.d[self.domains][tail],
              LAMBDA tail_val :
                  \A k \in 1..Len(M.d[self.domains][head]) :
                      ~conflicted(M, self, tail, tail_val, head, M.d[self.domains][head][k]))

\* the filter with the two values handed to conflicted in the other order
new_tail_domain_swapped(M, self, tail, head) ==
    SelectSeq(M.d[self.domains][tail],
              LAMBDA tail_val :
                  \E k \in 1..Len(M.d[self.domains][head]) :
                      ~conflicted(M, self, tail, M.d[self.domains][head][k], head, tail_val))

\* the filter of enforce_arc: the values of tail with a value of head that
\* does not conflict
new_tail_domain(M, self, tail, head) ==
    SelectSeq(Domains(M, self)[tail],
              LAMBDA tail_val :
                  \E k \in 1..Len(Domains(M, self)[head]) :
                      ~conflicted(M, self, tail, tail_val, head, Domains(M, self)[head][k]))

enforce_arc(M, self, tail, head) ==
    LET lo == IF tail < head THEN tail ELSE head
        hi == IF tail < head THEN head ELSE tail
        new == new_tail_domain(M, self, tail, head)
    IN  IF <<lo, hi>> \notin DOMAIN Constraints(M, self)
        THEN [M |-> M, ret |-> FALSE]
        ELSE [M |-> [M EXCEPT !.d[self.domains][tail] = new],
              ret |-> Len(new) < Len(Domains(M, self)[tail])]

\* the loop with `self.enforce_arc(var, tail)`: the arc in the other direction
RECURSIVE forward_check_loop_reversed_arcs(_, _, _, _)
forward_check_loop_reversed_arcs(M, self, tails, var) ==
    IF tails = <<>> THEN M
    ELSE forward_check_loop_reversed_arcs(enforce_arc(M, self, var, Head(tails)).M,
                                          self, Tail(tails), var)

\* the for loop of forward_check over the list `tails`
RECURSIVE forward_check_loop(_, _, _, _)
forward_check_loop(M, self, tails, var) ==
    IF tails = <<>> THEN M
    ELSE forward_check_loop(enforce_arc(M, self, Head(tails), var).M, self, Tail(tails), var)

\* raised is TRUE when the call ends in an exception
forward_check(M, self, var) ==
    IF Values(M, self)[var] = None
    THEN [M |-> M, raised |-> TRUE]
    ELSE [M |-> forward_check_loop(M, self,
                    SelectSeq(range(len(Values(M, self))), LAMBDA var2 : var2 # var), var),
          raised |-> FALSE]

\* an iteration that appends no arc
requeue_nothing(M, self, arcs, tail) == arcs

\* the iteration without the test `(var, tail) not in arcs`
requeue_pending_again(M, self, arcs, tail) ==
    arcs \o [k \in 1..(len(M.v[self.values]) - 1) |-> <<IF k - 1 < tail THEN k - 1 ELSE k, tail>>]

\* the arcs (var, tail) that one iteration of run_arc_consistency appends
requeue(M, self, arcs, tail) ==
    LET cand == SelectSeq(range(len(Values(M, self))),
                          LAMBDA var : var # tail /\ <<var, tail>> \notin Elems(arcs))
    IN  arcs \o [k \in 1..Len(cand) |-> <<cand[k], tail>>]

\* one iteration of the while loop of run_arc_consistency (arcs is not empty)
arc_step(M, self, arcs) ==
    LET tail == arcs[1][1]
        head == arcs[1][2]
        r == enforce_arc(M, self, tail, head)
    IN  [M |-> r.M,
         arcs |-> IF r.ret THEN requeue(r.M, self, Tail(arcs), tail) ELSE Tail(arcs)]

RECURSIVE run_arc_consistency(_, _, _)
run_arc_consistency(M, self, arcs) ==
    IF Len(arcs) > 0
    THEN LET s == arc_step(M, self, arcs) IN run_arc_consistency(s.M, self, s.arcs)
    ELSE M

\* the arcs that set_var_val hands to run_arc_consistency
arcs_into(M, self, var) ==
    LET tails == SelectSeq(range(len(Values(M, self))), LAMBDA tail : tail # var)
    IN  [k \in 1..Len(tails) |-> <<tails[k], var>>]

\* the pairs with `for head in range(tail + 1, n)`: each pair in one direction only
all_arcs_one_direction(n) ==
    LET P == {p \in (0..(n - 1)) \X (0..(n - 1)) : p[1] < p[2]}
        F[S \in SUBSET P] ==
            IF S = {} THEN <<>>
            ELSE LET p == CHOOSE x \in S : \A y \in S :
                              x[1] < y[1] \/ (x[1] = y[1] /\ x[2] <= y[2])
                 IN  <<p>> \o F[S \ {p}]
    IN  F[P]

\* every ordered pair of distinct variables, tail-major
all_arcs(n) ==
    [k \in 1..(n * (n - 1)) |->
        LET tail == (k - 1) \div (n - 1)
            j == (k - 1) % (n - 1)
        IN  <<tail, IF j < tail THEN j ELSE j + 1>>]

check_all_arcs(M, self) == run_arc_consistency(M, self, all_arcs(len(Values(M, self))))

\* the propagation that ends set_var_val
propagate(M, self, var) ==
    IF self.use_forward_checking THEN forward_check(M, self, var).M
    ELSE IF self.use_arc_consistency THEN run_arc_consistency(M, self, arcs_into(M, self, var))
    ELSE M

\* set_var_val with the membership test after the two assignments
set_var_val_late_check(M, self, var, val) ==
    IF val \notin Elems(M.d[self.domains][var])
    THEN [M |-> [M EXCEPT !.v[self.values][var] = val, !.d[self.domains][var] = <<val>>],
          raised |-> TRUE]
    ELSE [M |-> propagate([M EXCEPT !.v[self.values][var] = val,
                                    !.d[self.domains][var] = <<val>>], self, var),
          raised |-> FALSE]

\* set_var_val without the membership test
set_var_val_unchecked(M, self, var, val) ==
    [M |-> propagate([M EXCEPT !.v[self.values][var] = val,
                               !.d[self.domains][var] = <<val>>], self, var),
     raised |-> FALSE]

\* set_var_val without `self.domains[var] = [val]`
set_var_val_keep_domain(M, self, var, val) ==
    IF val \notin Elems(M.d[self.domains][var])
    THEN [M |-> M, raised |-> TRUE]
    ELSE [M |-> propagate([M EXCEPT !.v[self.values][var] = val], self, var),
          raised |-> FALSE]

set_var_val(M, self, var, val) ==
    IF val \notin Elems(Domains(M, self)[var])
    THEN [M |-> M, raised |-> TRUE]
    ELSE [M |-> propagate([M EXCEPT !.v[self.values][var] = val,
                                    !.d[self.domains][var] = <<val>>], self, var),
          raised |-> FALSE]

\* ---------------------------------------------------------------- backtracking_search.py
VARIABLES
    proc,           \* the program that runs: "bts", "api" or "ls"
    pc,             \* where the program is
    heap,           \* the memory: [d, v, c]
    problem,        \* the instance the caller constructed
    args,           \* the arguments of the call of solve / iterative_improvement
    fringe,         \* solve: the entries (priority, instance) of the PriorityQueue
    instantiation,  \* solve: the instance popped last, None before the first pop
    iterations,     \* solve / iterative_improvement: the local counter
    clone,          \* api: the instance copy() returned, None before it
    call            \* api: the call of the model made last, or in progress

vars == <<proc, pc, heap, problem, args, fringe, instantiation, iterations, clone, call>>

unassigned(M, self) == {v \in VarsOf(M, self) : Values(M, self)[v] = None}

\* problem.values.index(None)
increasing_order(M, self) ==
    CHOOSE v \in unassigned(M, self) : \A w \in unassigned(M, self) : v <= w

\* min over the unassigned variables in increasing order: the first of the least
mrv(M, self) ==
    CHOOSE v \in unassigned(M, self) :
        \A w \in unassigned(M, self) :
            \/ Len(Domains(M, self)[v]) < Len(Domains(M, self)[w])
            \/ Len(Domains(M, self)[v]) = Len(Domains(M, self)[w]) /\ v <= w

\* the sort key of lcv
lcv_key(M, c) == SumSeq([k \in 1..len(Values(M, c)) |-> Len(Domains(M, c)[k - 1])])

\* sorted(children, key, reverse=True): stable, greatest key first
RECURSIVE lcv(_, _)
lcv(M, children) ==
    IF children = <<>> THEN <<>>
    ELSE LET first == CHOOSE k \in 1..Len(children) :
                          \A j \in 1..Len(children) :
                              \/ lcv_key(M, children[k]) > lcv_key(M, children[j])
                              \/ lcv_key(M, children[k]) = lcv_key(M, children[j]) /\ k <= j
         IN  <<children[first]>> \o
             lcv(M, [j \in 1..(Len(children) - 1) |->
                        IF j < first THEN children[j] ELSE children[j + 1]])

\* count(None) + i / n with the division of two integers, which is 0 for i < n
bts_priority_int_division(M, self, i, n) ==
    [num |-> Cardinality({v \in 0..(len(M.v[self.values]) - 1) : M.v[self.values][v] = None}),
     den |-> 1]

\* count(None) + float(i) / n, kept as the exact fraction (whole * n + i) / n
bts_priority(M, self, i, n) ==
    [num |-> Cardinality(unassigned(M, self)) * n + i, den |-> n]
\* the priority 0 of the root
ZeroPriority == [num |-> 0, den |-> 1]
PrioLess(p, q) == p.num * q.den < q.num * p.den

pick(M, self, pick_next_var) ==
    IF pick_next_var = "mrv" THEN mrv(M, self) ELSE increasing_order(M, self)
order(M, children, order_values) ==
    IF order_values = "lcv" THEN lcv(M, children) ELSE children

\* the for loop over instantiation.domains[next_var] (lines 64-68)
RECURSIVE make_children(_, _, _, _, _)
make_children(M, self, next_var, vals, children) ==
    IF vals = <<>> THEN [M |-> M, children |-> children, raised |-> FALSE]
    ELSE LET c == copy(M, self)
             r == set_var_val(c.M, c.ret, next_var, Head(vals))
         IN  IF r.raised THEN [M |-> r.M, children |-> children, raised |-> TRUE]
             ELSE make_children(r.M, self, next_var, Tail(vals),
                                IF is_consistent(r.M, c.ret)
                                THEN Append(children, c.ret) ELSE children)

\* the body of the while loop for an incomplete instance (lines 62-72)
expand(M, self, pick_next_var, order_values) ==
    LET next_var == pick(M, self, pick_next_var)
        made == make_children(M, self, next_var, Domains(M, self)[next_var], <<>>)
        children == order(made.M, made.children, order_values)
    IN  [M |-> made.M, raised |-> made.raised,
         puts |-> {[priority |-> bts_priority(made.M, children[k], k - 1, Len(children)),
                    item |-> children[k]] : k \in 1..Len(children)}]

\* the lists no live instance refers to are freed
collect(M, live) ==
    [M EXCEPT !.d = [k \in {i.domains : i \in live} |-> M.d[k]],
              !.v = [k \in {i.values : i \in live} |-> M.v[k]]]

Items(q) == {e.item : e \in q}

\* ---------------------------------------------------------------- generated problems
FullDomain == [k \in 1..(MaxVal + 1) |-> k - 1]
\* A table gives the same predicate to every pair of an edge set, or lt to the
\* neighbours (i, i + 1) and neq to the others.
Patterns == {"neq", "lt", "mixed"}
PredOf(pattern, pair) ==
    IF pattern = "neq" THEN neq
    ELSE IF pattern = "lt" THEN lt
    ELSE IF pair[2] = pair[1] + 1 THEN lt ELSE neq
Tables == {[pair \in E |-> PredOf(pattern, pair)] : E \in SUBSET Pairs, pattern \in Patterns}
\* the tables of a complete graph, a chain and a star
Shapes == {Pairs, {pair \in Pairs : pair[2] = pair[1] + 1}, {pair \in Pairs : pair[1] = 0}}
ShapeTables == {[pair \in E |-> PredOf(pattern, pair)] : E \in Shapes, pattern \in Patterns}
Filterings == {"none", "fc", "ac", "other"}
VarOrders == {"increasing_order", "mrv"}
ValOrders == {"identity", "lcv"}
NoCall == [name |-> "none", self |-> NoInstance, var |-> None, val |-> None,
           var2 |-> None, val2 |-> None, arcs |-> <<>>, ret |-> FALSE, raised |-> FALSE]
NoArgs == [filtering |-> "none", pick_next_var |-> "increasing_order", order_values |-> "identity",
           initialize |-> "none", pick_var |-> "none", pick_value |-> "none",
           iteration_limit |-> 0]

\* BinaryCSP(domains, values, constraints) with full domains and no value assigned
NewProblem(table) ==
    /\ heap = [d |-> 0 :> [v \in 0..(NumVars - 1) |-> FullDomain],
               v |-> 0 :> [v \in 0..(NumVars - 1) |-> None],
               c |-> 0 :> table]
    /\ problem = BinaryCSP(0, 0, 0, FALSE, FALSE)

InitBts ==
    /\ proc = "bts"
    /\ pc = "idle"
    /\ \E table \in Tables : NewProblem(table)
    /\ args = NoArgs
    /\ fringe = {}
    /\ instantiation = NoInstance
    /\ iterations = 0
    /\ clone = NoInstance
    /\ call = NoCall

\* solve, lines 34-50: the filtering is set up and the root is put on the fringe
Solve(filtering, pick_next_var, order_values) ==
    /\ proc = "bts"
    /\ pc \in {"idle", "solved", "no_solution", "raised"}
    /\ args' = [NoArgs EXCEPT !.filtering = filtering, !.pick_next_var = pick_next_var,
                               !.order_values = order_values]
    /\ iterations' = 0
    /\ instantiation' = NoInstance
    /\ IF filtering = "fc"
       THEN /\ problem' = [problem EXCEPT !.use_forward_checking = TRUE]
            /\ heap' = collect(heap, {problem})
            /\ fringe' = {[priority |-> ZeroPriority, item |-> problem']}
            /\ pc' = "loop"
       ELSE IF filtering = "ac"
       THEN /\ problem' = [problem EXCEPT !.use_arc_consistency = TRUE]
            /\ heap' = check_all_arcs(collect(heap, {problem}), problem)
            /\ fringe' = {[priority |-> ZeroPriority, item |-> problem']}
            /\ pc' = "loop"
       ELSE IF filtering # "none"
       THEN /\ pc' = "raised"
            /\ heap' = collect(heap, {problem})
            /\ fringe' = {}
            /\ UNCHANGED problem
       ELSE /\ UNCHANGED problem
            /\ heap' = collect(heap, {problem})
            /\ fringe' = {[priority |-> ZeroPriority, item |-> problem]}
            /\ pc' = "loop"
    /\ UNCHANGED <<proc, clone, call>>

\* fringe.get(): an entry no other entry is less than
Least(q) == {e \in q : \A f \in q : ~PrioLess(f.priority, e.priority)}

\* one iteration of the while loop (lines 52-72)
Iterate ==
    /\ proc = "bts"
    /\ pc = "loop"
    /\ fringe # {}
    /\ \E e \in Least(fringe) :
        /\ instantiation' = e.item
        /\ iterations' = iterations + 1
        /\ IF is_complete(heap, e.item)
           THEN /\ fringe' = fringe \ {e}
                /\ pc' = IF is_solution(heap, e.item) THEN "solved" ELSE "loop"
                /\ heap' = collect(heap, {problem, e.item} \cup Items(fringe'))
           ELSE LET x == expand(heap, e.item, args.pick_next_var, args.order_values)
                IN  /\ fringe' = (fringe \ {e}) \cup x.puts
                    /\ pc' = IF x.raised THEN "raised" ELSE "loop"
                    /\ heap' = collect(x.M, {problem, e.item} \cup Items(fringe'))
    /\ UNCHANGED <<proc, problem, args, clone, call>>

\* the else of the while loop (lines 73-74): the fringe is empty
Exhaust ==
    /\ proc = "bts"
    /\ pc = "loop"
    /\ fringe = {}
    /\ pc' = "no_solution"
    /\ UNCHANGED <<proc, heap, problem, args, fringe, instantiation, iterations, clone, call>>

NextBts ==
    \/ \E f \in Filterings, pv \in VarOrders, ov \in ValOrders : Solve(f, pv, ov)
    \/ Iterate
    \/ Exhaust

SpecBts == InitBts /\ [][NextBts]_vars

\* ---------------------------------------------------------------- calls of the model
\* A caller that constructs an instance and calls the methods of BinaryCSP on
\* it: it assigns the variables in increasing order, and at any point makes
\* one other call, or copies the instance and makes one call on the copy or on
\* the original.  An exception ends the caller.  run_arc_consistency on the
\* original is followed iteration by iteration of its while loop.
Instances == {problem} \cup (IF clone = NoInstance THEN {} ELSE {clone})
Modes == {<<FALSE, FALSE>>, <<TRUE, FALSE>>, <<FALSE, TRUE>>}

InitApi ==
    /\ proc = "api"
    /\ pc = "ready"
    /\ \E table \in ShapeTables, mode \in Modes :
        /\ heap = [d |-> 0 :> [v \in 0..(NumVars - 1) |-> FullDomain],
                   v |-> 0 :> [v \in 0..(NumVars - 1) |-> None],
                   c |-> 0 :> table]
        /\ problem = BinaryCSP(0, 0, 0, mode[1], mode[2])
    /\ args = NoArgs
    /\ fringe = {}
    /\ instantiation = NoInstance
    /\ iterations = 0
    /\ clone = NoInstance
    /\ call = NoCall

ApiFrame == UNCHANGED <<proc, problem, args, fringe, instantiation, iterations>>

Copy ==
    /\ proc = "api" /\ pc = "ready"
    /\ LET c == copy(heap, problem)
       IN  /\ heap' = c.M
           /\ clone' = c.ret
           /\ call' = [NoCall EXCEPT !.name = "copy", !.self = problem]
    /\ pc' = "copied"
    /\ ApiFrame

SetVarVal(self, var, val) ==
    /\ proc = "api" /\ pc \in {"ready", "copied"}
    /\ LET r == set_var_val(heap, self, var, val)
       IN  /\ heap' = r.M
           /\ call' = [NoCall EXCEPT !.name = "set_var_val", !.self = self, !.var = var,
                                     !.val = val, !.raised = r.raised]
           /\ pc' = IF /\ pc = "ready" /\ ~r.raised
                       /\ unassigned(heap, self) # {}
                       /\ var = increasing_order(heap, self)
                    THEN "ready" ELSE "done"
    /\ UNCHANGED clone
    /\ ApiFrame

EnforceArc(self, tail, head) ==
    /\ proc = "api" /\ pc \in {"ready", "copied"}
    /\ LET r == enforce_arc(heap, self, tail, head)
       IN  /\ heap' = r.M
           /\ call' = [NoCall EXCEPT !.name = "enforce_arc", !.self = self, !.var = tail,
                                     !.val = head, !.ret = r.ret]
    /\ pc' = "done"
    /\ UNCHANGED clone
    /\ ApiFrame

ForwardCheck(self, var) ==
    /\ proc = "api" /\ pc \in {"ready", "copied"}
    /\ LET r == forward_check(heap, self, var)
       IN  /\ heap' = r.M
           /\ call' = [NoCall EXCEPT !.name = "forward_check", !.self = self, !.var = var,
                                     !.raised = r.raised]
    /\ pc' = "done"
    /\ UNCHANGED clone
    /\ ApiFrame

\* conflicted, asked of a new instance for any two variables and values
Conflicted(var1, val1, var2, val2) ==
    /\ proc = "api" /\ pc = "ready"
    /\ call = NoCall
    /\ call' = [NoCall EXCEPT !.name = "conflicted", !.self = problem, !.var = var1,
                              !.val = val1, !.var2 = var2, !.val2 = val2,
                              !.ret = conflicted(heap, problem, var1, val1, var2, val2)]
    /\ pc' = "done"
    /\ UNCHANGED <<heap, clone>>
    /\ ApiFrame

\* check_all_arcs on the original: run_arc_consistency is entered with every arc
CheckAllArcs ==
    /\ proc = "api" /\ pc = "ready"
    /\ call' = [NoCall EXCEPT !.name = "check_all_arcs", !.self = problem,
                              !.arcs = all_arcs(len(Values(heap, problem)))]
    /\ pc' = "run_arc_consistency"
    /\ UNCHANGED <<heap, clone>>
    /\ ApiFrame

\* one iteration of the while loop of run_arc_consistency
ArcStep ==
    /\ proc = "api" /\ pc = "run_arc_consistency"
    /\ Len(call.arcs) > 0
    /\ LET s == arc_step(heap, call.self, call.arcs)
       IN  /\ heap' = s.M
           /\ call' = [call EXCEPT !.arcs = s.arcs, !.var = call.arcs[1][1],
                                   !.val = call.arcs[1][2], !.ret = (s.M # heap)]
    /\ UNCHANGED <<pc, clone>>
    /\ ApiFrame

\* the while loop ends: run_arc_consistency and check_all_arcs return
ArcReturn ==
    /\ proc = "api" /\ pc = "run_arc_consistency"
    /\ Len(call.arcs) = 0
    /\ pc' = "done"
    /\ UNCHANGED <<heap, clone, call>>
    /\ ApiFrame

\* check_all_arcs on the copy or on the original beside its copy
CheckAllArcsOf(self) ==
    /\ proc = "api" /\ pc = "copied"
    /\ heap' = check_all_arcs(heap, self)
    /\ call' = [NoCall EXCEPT !.name = "check_all_arcs", !.self = self,
                              !.ret = (heap' # heap)]
    /\ pc' = "done"
    /\ UNCHANGED clone
    /\ ApiFrame

NextApi ==
    \/ Copy
    \/ \E self \in Instances, var \in 0..(NumVars - 1), val \in Val : SetVarVal(self, var, val)
    \/ \E self \in Instances, tail \in 0..(NumVars - 1), head \in 0..(NumVars - 1) :
           tail # head /\ EnforceArc(self, tail, head)
    \/ \E self \in Instances, var \in 0..(NumVars - 1) : ForwardCheck(self, var)
    \/ CheckAllArcs
    \/ ArcStep
    \/ ArcReturn
    \/ \E self \in Instances : CheckAllArcsOf(self)
    \/ \E var1 \in 0..(NumVars - 1), var2 \in 0..(NumVars - 1),
          val1 \in Val \cup {None}, val2 \in Val \cup {None} : Conflicted(var1, val1, var2, val2)

SpecApi == InitApi /\ [][NextApi]_vars

\* ---------------------------------------------------------------- local_search.py
\* bound of the iteration count of the local search loop
MaxIter == 3
\* the iteration_limit of the linear schedule the caller may pass
LinearLimit == 2

\* the candidates of any_conflicting_var
conflicting_vars(M, self) ==
    {var \in VarsOf(M, self) :
        /\ Len(Domains(M, self)[var]) > 1
        /\ num_conflicts(M, self, var, Values(M, self)[var]) > 0}

\* the candidates of random_value and of min_conflicts
other_values(M, self, var) ==
    SelectSeq(Domains(M, self)[var], LAMBDA val : val # Values(M, self)[var])

\* min over the candidates in the order of the domain: the first of the least
min_conflicts(M, self, var) ==
    LET values == other_values(M, self, var)
        first == CHOOSE k \in 1..Len(values) :
                     \A j \in 1..Len(values) :
                         \/ num_conflicts(M, self, var, values[k]) < num_conflicts(M, self, var, values[j])
                         \/ /\ num_conflicts(M, self, var, values[k]) = num_conflicts(M, self, var, values[j])
                            /\ k <= j
    IN  values[first]

\* linear_schedule(initial_temp, iteration_limit) with 0 < initial_temp < 1 is
\* positive and below 1 before iteration_limit and 0 from it on; the default
\* schedule is 0 always (iteration_limit 0).
annealing(iteration_limit, n) == IF n < iteration_limit THEN "between" ELSE "zero"

\* [domains[var][0] for each var]: the values first_values assigns
first_values(M, self) == [var \in VarsOf(M, self) |-> Domains(M, self)[var][1]]
\* the assignments random_values may make
random_values(M, self) ==
    {a \in [VarsOf(M, self) -> Val] : \A var \in VarsOf(M, self) : a[var] \in Elems(Domains(M, self)[var])}

\* the domain lists the caller constructs: full, except that variable 0 may
\* have the single value 0 or no value
LsDomains ==
    {[v \in 0..(NumVars - 1) |-> FullDomain],
     [v \in 0..(NumVars - 1) |-> IF v = 0 THEN <<0>> ELSE FullDomain],
     [v \in 0..(NumVars - 1) |-> IF v = 0 THEN <<>> ELSE FullDomain]}

InitLs ==
    /\ proc = "ls"
    /\ pc = "start"
    /\ \E table \in ShapeTables, domains \in LsDomains :
        /\ heap = [d |-> 0 :> domains,
                   v |-> 0 :> [v \in 0..(NumVars - 1) |-> None],
                   c |-> 0 :> table]
        /\ problem = BinaryCSP(0, 0, 0, FALSE, FALSE)
    /\ \E initialize \in {"first_values", "random_values"},
          pick_var \in {"random_var", "any_conflicting_var"},
          pick_value \in {"random_value", "min_conflicts"},
          iteration_limit \in {0, LinearLimit} :
        args = [NoArgs EXCEPT !.initialize = initialize, !.pick_var = pick_var,
                              !.pick_value = pick_value, !.iteration_limit = iteration_limit]
    /\ fringe = {}
    /\ instantiation = NoInstance
    /\ iterations = 0
    /\ clone = NoInstance
    /\ call = NoCall

LsFrame == UNCHANGED <<proc, problem, args, fringe, instantiation, clone, call>>

\* iterative_improvement, lines 58-65: the precondition and the initialization
Initialize ==
    /\ proc = "ls" /\ pc = "start"
    /\ IF ~is_consistent(heap, problem)
       THEN pc' = "raised" /\ UNCHANGED heap
       ELSE /\ pc' = "loop"
            /\ \E a \in (IF args.initialize = "first_values"
                         THEN {first_values(heap, problem)}
                         ELSE random_values(heap, problem)) :
                   heap' = [heap EXCEPT !.v[problem.values] = a]
    /\ UNCHANGED iterations
    /\ LsFrame

\* the variables and values one iteration may pick, by branch: the random step
\* is possible when the temperature is positive, the repair step when it is
\* below 1
StepVars(random_step) ==
    IF random_step \/ args.pick_var = "random_var"
    THEN VarsOf(heap, problem)
    ELSE conflicting_vars(heap, problem)
StepValues(random_step, var) ==
    IF random_step \/ args.pick_value = "random_value"
    THEN Elems(other_values(heap, problem, var))
    ELSE IF other_values(heap, problem, var) = <<>> THEN {}
    ELSE {min_conflicts(heap, problem, var)}
Branches == IF annealing(args.iteration_limit, iterations) = "zero" THEN {FALSE} ELSE BOOLEAN

\* one iteration of the while loop (lines 68-76)
Step ==
    /\ proc = "ls" /\ pc = "loop"
    /\ ~is_solution(heap, problem)
    /\ iterations < MaxIter
    /\ \E random_step \in Branches :
        \/ /\ StepVars(random_step) = {}
           /\ pc' = "raised"
           /\ UNCHANGED <<heap, iterations>>
        \/ \E var_to_change \in StepVars(random_step) :
            \/ /\ StepValues(random_step, var_to_change) = {}
               /\ pc' = "raised"
               /\ UNCHANGED <<heap, iterations>>
            \/ \E new_value \in StepValues(random_step, var_to_change) :
                /\ heap' = [heap EXCEPT !.v[problem.values][var_to_change] = new_value]
                /\ iterations' = iterations + 1
                /\ UNCHANGED pc
    /\ LsFrame

\* the while loop ends (lines 84-87)
Exit ==
    /\ proc = "ls" /\ pc = "loop"
    /\ is_solution(heap, problem)
    /\ pc' = "done"
    /\ UNCHANGED <<heap, iterations>>
    /\ LsFrame

NextLs == Initialize \/ Step \/ Exit

SpecLs == InitLs /\ [][NextLs]_vars

\* ---------------------------------------------------------------- the three programs
Init == InitBts \/ InitApi \/ InitLs
Next == NextBts \/ NextApi \/ NextLs
Spec == Init /\ [][Next]_vars
\* the model and the search that copies it
SpecApiBts == (InitApi \/ InitBts) /\ [][NextApi \/ NextBts]_vars
\* the two searches
SpecBtsLs == (InitBts \/ InitLs) /\ [][NextBts \/ NextLs]_vars

\* ---------------------------------------------------------------- properties
\* the contents of the lists of an instance
Assigned(M, self) == {var \in DOMAIN M.v[self.values] : M.v[self.values][var] # None}
Complete(M, self) == \A var \in DOMAIN M.v[self.values] : M.v[self.values][var] # None
\* the assignment a satisfies every predicate of the table
Satisfies(table, a) == \A key \in DOMAIN table : <<a[key[1]], a[key[2]]>> \in table[key]
\* the complete assignments drawn from the domain lists that satisfy the table
SolutionsOf(domains, table) ==
    {a \in [DOMAIN domains -> Val] :
        /\ \A var \in DOMAIN domains : a[var] \in Elems(domains[var])
        /\ Satisfies(table, a)}
\* the domains every generated backtracking problem is constructed with
OriginalDomains == [v \in 0..(NumVars - 1) |-> FullDomain]
HasSolution == SolutionsOf(OriginalDomains, heap.c[problem.constraints]) # {}
\* the instances a program holds
LiveInstances ==
    IF proc = "bts"
    THEN {problem} \cup Items(fringe) \cup (IF instantiation = NoInstance THEN {} ELSE {instantiation})
    ELSE Instances
SubList(s, t) == Elems(s) \subseteq Elems(t) /\ Len(s) <= Len(t)
NoGrowth(after, before) == \A var \in DOMAIN after : SubList(after[var], before[var])
\* the step is an iteration of the loop of solve
IsIterate == proc = "bts" /\ pc = "loop" /\ iterations' = iterations + 1

\* the weight of the fringe: (b + 1)^u for an entry with u unassigned variables,
\* where b is the length of a full domain
RECURSIVE Power(_, _)
Power(b, u) == IF u = 0 THEN 1 ELSE b * Power(b, u - 1)
RECURSIVE SearchMeasureOf(_, _)
SearchMeasureOf(M, q) ==
    IF q = {} THEN 0
    ELSE LET e == CHOOSE x \in q : TRUE
         IN  Power(Len(FullDomain) + 1, Cardinality(unassigned(M, e.item)))
             + SearchMeasureOf(M, q \ {e})
SearchMeasure == SearchMeasureOf(heap, fringe)

\* C1: backtracking completeness.  With an empty root assignment, in every
\* filtering mode and with every variable and value ordering: solve reports
\* "no solution" only when no complete assignment drawn from the original
\* domains satisfies the table; no exception ends a search with a recognized
\* filter; and every iteration of the loop lowers a natural-number weight of
\* the fringe, so the loop ends.  Hence when a solution exists the search ends
\* with success.
C1_Completeness ==
    /\ [](proc = "bts" /\ pc = "no_solution" => ~HasSolution)
    /\ [](proc = "bts" /\ pc = "raised" => args.filtering = "other")
    /\ [][IsIterate => SearchMeasure' < SearchMeasure]_vars
C1_Witness ==
    /\ proc = "bts" /\ pc = "solved" /\ HasSolution
    /\ args.pick_next_var = "mrv" /\ args.order_values = "lcv"
    /\ iterations > NumVars + 1

\* C2: backtracking result soundness.  An iteration of solve ends the search
\* with success exactly when the instance it popped is complete and satisfies
\* every predicate of the table; a complete instance that violates one is
\* dropped from the fringe and the search goes on.
C2_ResultSoundness ==
    [][IsIterate =>
        /\ (pc' = "solved") <=>
               (Complete(heap', instantiation')
                /\ Satisfies(heap'.c[instantiation'.constraints], Values(heap', instantiation')))
        /\ (Complete(heap', instantiation')
            /\ ~Satisfies(heap'.c[instantiation'.constraints], Values(heap', instantiation')))
               => (pc' = "loop" /\ fringe' = {e \in fringe : e.item # instantiation'})]_vars
C2_Witness ==
    /\ proc = "bts" /\ pc = "solved" /\ args.filtering = "none"
    /\ iterations > NumVars + 1
    /\ Satisfies(heap.c[instantiation.constraints], Values(heap, instantiation))

\* C3: soundness of pruning.  A value that enforce_arc, an iteration of
\* run_arc_consistency, or a whole check_all_arcs removes from a domain is the
\* value of that variable in no solution of the problem as it was before the
\* call (for set_var_val: as it was once the variable's domain was [val]).
PrunedSoundly(before, after, table) ==
    \A var \in DOMAIN before :
        \A v \in Elems(before[var]) \ Elems(after[var]) :
            \A a \in SolutionsOf(before, table) : a[var] # v
C3_SoundPruning ==
    [][/\ (proc = "api" /\ call'.name \in {"enforce_arc", "check_all_arcs"})
          => PrunedSoundly(Domains(heap, call'.self), Domains(heap', call'.self),
                           heap.c[call'.self.constraints])
       /\ (proc = "api" /\ pc \in {"ready", "copied"} /\ call'.name = "set_var_val" /\ ~call'.raised)
          => PrunedSoundly([Domains(heap, call'.self) EXCEPT ![call'.var] = <<call'.val>>],
                           Domains(heap', call'.self), heap.c[call'.self.constraints])]_vars
C3_Witness ==
    /\ proc = "api" /\ pc = "done" /\ call.name = "enforce_arc" /\ call.ret
    /\ SolutionsOf(Domains(heap, call.self), heap.c[call.self.constraints]) # {}

\* C4: domain monotonicity.  No step of any program makes a domain of an
\* instance gain a value, the domains of a copy are those of the original, and
\* the domains of every instance solve puts on the fringe are sublists of the
\* domains of the instance it was made from.
C4_DomainMonotonicity ==
    [][/\ \A k \in DOMAIN heap.d \cap DOMAIN heap'.d : NoGrowth(heap'.d[k], heap.d[k])
       /\ IsIterate => \A e \in fringe' \ fringe :
              NoGrowth(Domains(heap', e.item), Domains(heap, instantiation'))
       /\ (proc = "api" /\ clone' # clone)
              => NoGrowth(Domains(heap', clone'), Domains(heap, problem))]_vars
C4_Witness ==
    /\ proc = "bts" /\ pc = "loop" /\ args.filtering = "ac"
    /\ \E e \in fringe : \E var \in unassigned(heap, e.item) :
           Len(Domains(heap, e.item)[var]) < Len(FullDomain)

\* C5: arc consistency idempotence.  When check_all_arcs has returned, a
\* second check_all_arcs on the same instance changes no list.
C5_Idempotence ==
    (proc = "api" /\ pc = "done" /\ call.name = "check_all_arcs")
        => check_all_arcs(heap, call.self) = heap
C5_Witness ==
    /\ proc = "api" /\ pc = "done" /\ call.name = "check_all_arcs"
    /\ call.self = clone /\ call.ret

\* C6: local search exit condition.  When the loop of iterative_improvement
\* has ended, the assignment is complete, violates no predicate of the table,
\* and total_conflicts() is 0.
C6_ExitCondition ==
    (proc = "ls" /\ pc = "done")
        => /\ Complete(heap, problem)
           /\ Satisfies(heap.c[problem.constraints], Values(heap, problem))
           /\ total_conflicts(heap, problem) = 0
C6_Witness ==
    /\ proc = "ls" /\ pc = "done" /\ iterations > 0
    /\ DOMAIN heap.c[problem.constraints] # {}

\* C7: conflict symmetry.  conflicted(a, va, b, vb) is conflicted(b, vb, a, va);
\* it is false when a value is None or the pair has no predicate, and else the
\* negation of the predicate applied to the value of the lower variable first.
C7_ConflictSymmetry ==
    (proc = "api" /\ call.name = "conflicted")
        => LET lo == IF call.var < call.var2 THEN call.var ELSE call.var2
               hi == IF call.var < call.var2 THEN call.var2 ELSE call.var
               vlo == IF call.var < call.var2 THEN call.val ELSE call.val2
               vhi == IF call.var < call.var2 THEN call.val2 ELSE call.val
               table == heap.c[call.self.constraints]
           IN  /\ call.ret = conflicted(heap, call.self, call.var2, call.val2, call.var, call.val)
               /\ call.ret = IF call.val = None \/ call.val2 = None \/ <<lo, hi>> \notin DOMAIN table
                             THEN FALSE
                             ELSE <<vlo, vhi>> \notin table[<<lo, hi>>]
C7_Witness ==
    /\ proc = "api" /\ call.name = "conflicted"
    /\ call.var > call.var2 /\ call.ret
    /\ ~conflicted(heap, call.self, call.var, call.val2, call.var2, call.val)

\* C8: set_var_val raises exactly when the value is not in the variable's
\* domain, and then no list has changed; solve never meets this exception: the
\* only exception that ends it is the one for an unrecognized filter, before
\* the first iteration.
C8_DomainError ==
    [][/\ (proc = "api" /\ pc \in {"ready", "copied"} /\ call'.name = "set_var_val")
          => /\ call'.raised <=> (call'.val \notin Elems(Domains(heap, call'.self)[call'.var]))
             /\ call'.raised => heap' = heap
       /\ (proc = "bts" /\ pc' = "raised")
          => (args'.filtering = "other" /\ iterations' = 0)]_vars
C8_Witness ==
    /\ proc = "api" /\ call.name = "set_var_val" /\ call.raised
    /\ call.val \notin Elems(Domains(heap, call.self)[call.var])

\* C9 as stated: in the root, in every instance of the backtracking search and
\* in the instance of the local search, the domain of every variable with a
\* value is the list of that value alone.
C9_Original ==
    proc \in {"bts", "ls"}
        => \A inst \in LiveInstances : \A var \in Assigned(heap, inst) :
               Domains(heap, inst)[var] = <<Values(heap, inst)[var]>>
\* C9 as amended: the singleton domain holds of the root and of every instance
\* backtracking search keeps (popped or on the fringe); local search assigns
\* values without collapsing domains, and there each value is a member of its
\* variable's domain.
C9_SingletonDomain ==
    /\ proc = "bts"
        => \A inst \in LiveInstances : \A var \in Assigned(heap, inst) :
               Domains(heap, inst)[var] = <<Values(heap, inst)[var]>>
    /\ proc = "ls"
        => \A var \in Assigned(heap, problem) :
               Values(heap, problem)[var] \in Elems(Domains(heap, problem)[var])
C9_Witness ==
    /\ proc = "bts" /\ pc = "loop" /\ args.filtering = "ac"
    /\ \E e \in fringe : Cardinality(Assigned(heap, e.item)) >= 2

\* C10: clone independence.  The copy has lists of its own with the contents
\* of the original's; a call on the copy changes no list of the original and a
\* call on the original none of the copy; an iteration of solve changes no list
\* of an instance that existed before it, and no two entries of the fringe
\* share a list; every instance refers to the one constraint table, which no
\* step changes.
C10_CloneIndependence ==
    [][/\ heap'.c = heap.c
       /\ \A inst \in LiveInstances' : inst.constraints = problem.constraints
       /\ (proc = "api" /\ clone' # clone)
          => /\ clone'.domains # problem.domains /\ clone'.values # problem.values
             /\ Domains(heap', clone') = Domains(heap, problem)
             /\ Values(heap', clone') = Values(heap, problem)
             /\ Domains(heap', problem) = Domains(heap, problem)
             /\ Values(heap', problem) = Values(heap, problem)
       /\ (proc = "api" /\ pc = "copied")
          => \A other \in Instances \ {call'.self} :
                 /\ Domains(heap', other) = Domains(heap, other)
                 /\ Values(heap', other) = Values(heap, other)
       /\ IsIterate
          => /\ \A k \in DOMAIN heap.d \cap DOMAIN heap'.d : heap'.d[k] = heap.d[k]
             /\ \A k \in DOMAIN heap.v \cap DOMAIN heap'.v : heap'.v[k] = heap.v[k]
       /\ \A e \in fringe', f \in fringe' :
              e # f => (e.item.domains # f.item.domains /\ e.item.values # f.item.values)]_vars
C10_Witness ==
    /\ proc = "api" /\ pc = "done" /\ call.name = "set_var_val" /\ ~call.raised
    /\ call.self = clone
    /\ Domains(heap, clone) # Domains(heap, problem)
    /\ Values(heap, clone) # Values(heap, problem)

\* ---------------------------------------------------------------- propagation modes
\* the propagation set_var_val runs for an instance: the if / elif on its flags
propagation_mode(self) ==
    IF self.use_forward_checking THEN "fc"
    ELSE IF self.use_arc_consistency THEN "ac"
    ELSE "none"

\* C11: propagation-mode exclusivity.  In the root and in every instance of a
\* backtracking search, after any sequence of calls of solve on the same root,
\* at most one of use_forward_checking and use_arc_consistency is set, and
\* while a search runs the propagation set_var_val performs is the one of the
\* filtering the call in progress asked for.
C11_ModeExclusivity ==
    proc = "bts"
        => \A inst \in LiveInstances :
               /\ ~(inst.use_forward_checking /\ inst.use_arc_consistency)
               /\ pc = "loop" => propagation_mode(inst) = args.filtering

\* ---------------------------------------------------------------- roots with a partial assignment
\* BinaryCSP(domains, values, constraints) as a caller may construct it: some
\* variables have a value and the list of that value alone, the others have
\* the full list or the empty list, and at least one list is empty.
PartialRoots ==
    {r \in [values : [0..(NumVars - 1) -> Val \cup {None}],
            domains : [0..(NumVars - 1) -> {FullDomain, <<>>} \cup {<<v>> : v \in Val}]] :
        /\ \E var \in 0..(NumVars - 1) : r.values[var] = None
        /\ \E var \in 0..(NumVars - 1) : r.values[var] # None
        /\ \E var \in 0..(NumVars - 1) : r.domains[var] = <<>>
        /\ \A var \in 0..(NumVars - 1) :
               IF r.values[var] = None
               THEN r.domains[var] \in {FullDomain, <<>>}
               ELSE r.domains[var] = <<r.values[var]>>}

InitBtsPartial ==
    /\ proc = "bts"
    /\ pc = "idle"
    /\ \E table \in ShapeTables, r \in PartialRoots :
        /\ heap = [d |-> 0 :> r.domains, v |-> 0 :> r.values, c |-> 0 :> table]
        /\ problem = BinaryCSP(0, 0, 0, FALSE, FALSE)
    /\ args = NoArgs
    /\ fringe = {}
    /\ instantiation = NoInstance
    /\ iterations = 0
    /\ clone = NoInstance
    /\ call = NoCall

SpecBtsPartial == InitBtsPartial /\ [][NextBts]_vars

\* solve, lines 56-62: pick_next_var is called for an instance that is not complete
selects_var(M, self) == ~is_complete(M, self)
\* solve, lines 64-65: one copy per value of the domain of the variable picked
clones_made(M, self, pick_next_var) ==
    IF is_complete(M, self) THEN 0 ELSE Len(Domains(M, self)[pick(M, self, pick_next_var)])

\* the first iteration of a forward-checking search whose root is incomplete
\* and has an empty domain
HasEmptyDomain(M, self) == \E var \in DOMAIN M.d[self.domains] : M.d[self.domains][var] = <<>>
IsRootIterate ==
    /\ IsIterate /\ iterations = 0 /\ args.filtering = "fc"
    /\ HasEmptyDomain(heap, problem) /\ ~Complete(heap, problem)

\* C12 as stated: the search on such a root ends without selecting a variable
\* and without making a clone.
C12_Original ==
    [][IsRootIterate =>
          /\ ~selects_var(heap, instantiation')
          /\ clones_made(heap, instantiation', args.pick_next_var) = 0]_vars

\* C12 as amended: the search on such a root pops the root, selects a
\* variable, rejects every clone it makes, puts nothing on the fringe and
\* leaves the root's lists as they were; it then reports "no solution" with
\* exactly one iteration counted, and never success or an exception.
C12_OneFruitlessExpansion ==
    /\ [][IsRootIterate =>
             /\ instantiation' = problem
             /\ selects_var(heap, problem)
             /\ iterations' = 1 /\ fringe' = {} /\ pc' = "loop"
             /\ heap' = heap]_vars
    /\ [](/\ proc = "bts" /\ args.filtering = "fc"
          /\ HasEmptyDomain(heap, problem) /\ ~Complete(heap, problem)
          => /\ pc \notin {"solved", "raised"}
             /\ pc = "no_solution" => iterations = 1)
C12_Witness ==
    /\ proc = "bts" /\ pc = "no_solution" /\ args.filtering = "fc" /\ iterations = 1
    /\ HasEmptyDomain(heap, problem) /\ Assigned(heap, problem) # {}
    /\ clones_made(heap, problem, args.pick_next_var) = Len(FullDomain)

\* ---------------------------------------------------------------- frontier order
\* the entry of the fringe q that holds the instance
EntryOf(q, inst) == CHOOSE e \in q : e.item = inst
\* the children the expansion of self puts on the fringe, in the order
\* order_values returned them
OrderedChildren(M, self, pick_next_var, order_values) ==
    LET next_var == pick(M, self, pick_next_var)
        made == make_children(M, self, next_var, Domains(M, self)[next_var], <<>>)
    IN  order(made.M, made.children, order_values)

\* the order of one pop: popped is the entry taken from q, kids the children in
\* the order order_values returned them, q2 the fringe after the iteration
PopInOrder(M, q, q2, popped, kids) ==
    LET rank == [x \in q2 \ q |-> CHOOSE j \in 1..Len(kids) : kids[j] = x.item]
    IN  /\ \A f \in q \ {popped} :
               /\ Cardinality(Assigned(M, popped.item)) >= Cardinality(Assigned(M, f.item))
               /\ PrioLess(popped.priority, f.priority)
        /\ {x.item : x \in q2 \ q} = Elems(kids)
        /\ Cardinality(q2 \ q) = Len(kids)
        /\ \A x \in q2 \ q, y \in q2 \ q :
               rank[x] < rank[y] => PrioLess(x.priority, y.priority)

\* C13: frontier order.  At every pop the popped instance has at least as
\* many assigned variables as every other instance on the fringe and its
\* priority is strictly below every other entry's, so the pop is determined;
\* and the children an expansion puts on the fringe have priorities that
\* strictly increase in the order order_values returned them, so they are
\* popped in that order (rank 0 first).
C13_FrontierOrder ==
    [][IsIterate =>
          \A popped \in {EntryOf(fringe, instantiation')} :
          \A kids \in {IF is_complete(heap, instantiation') THEN <<>>
                        ELSE OrderedChildren(heap, instantiation',
                                             args.pick_next_var, args.order_values)} :
              PopInOrder(heap, fringe, fringe', popped, kids)]_vars
C13_Witness ==
    /\ proc = "bts" /\ pc = "loop" /\ args.order_values = "lcv"
    /\ \E e \in fringe, f \in fringe, g \in fringe :
           /\ e # f /\ Cardinality(Assigned(heap, e.item)) = Cardinality(Assigned(heap, f.item))
           /\ Cardinality(Assigned(heap, g.item)) < Cardinality(Assigned(heap, e.item))

\* ---------------------------------------------------------------- conflict counts
\* the callers of the methods and the local search
SpecApiLs == (InitApi \/ InitLs) /\ [][NextApi \/ NextLs]_vars

\* the stored pairs whose two variables have values that the predicate rejects
ViolatedPairs(M, self) ==
    {key \in DOMAIN M.c[self.constraints] :
        /\ M.v[self.values][key[1]] # None /\ M.v[self.values][key[2]] # None
        /\ <<M.v[self.values][key[1]], M.v[self.values][key[2]]>> \notin M.c[self.constraints][key]}
\* the other variables whose value is rejected together with var = val
ConflictingWith(M, self, var, val) ==
    {var2 \in DOMAIN M.v[self.values] \ {var} :
        /\ M.v[self.values][var2] # None
        /\ IF var < var2
           THEN /\ <<var, var2>> \in DOMAIN M.c[self.constraints]
                /\ <<val, M.v[self.values][var2]>> \notin M.c[self.constraints][<<var, var2>>]
           ELSE /\ <<var2, var>> \in DOMAIN M.c[self.constraints]
                /\ <<M.v[self.values][var2], val>> \notin M.c[self.constraints][<<var2, var>>]}

\* C14: for every partial or complete assignment, total_conflicts() is the
\* number of stored pairs of variables that both have a value and whose values
\* violate the predicate, each pair counted once; and num_conflicts(var, val)
\* is the number of other variables whose value conflicts with var = val.
C14_ConflictCounts ==
    proc \in {"api", "ls"}
        => \A inst \in Instances :
               /\ total_conflicts(heap, inst) = Cardinality(ViolatedPairs(heap, inst))
               /\ \A var \in DOMAIN heap.v[inst.values], val \in Val :
                      num_conflicts(heap, inst, var, val)
                          = Cardinality(ConflictingWith(heap, inst, var, val))
C14_Witness ==
    /\ proc = "ls" /\ pc = "loop" /\ total_conflicts(heap, problem) >= 2
    /\ Cardinality(ViolatedPairs(heap, problem)) >= 2

\* ---------------------------------------------------------------- local search outcomes
\* C15: local search has no failure outcome.  The only exception of
\* iterative_improvement is the one of the precondition, for a problem with an
\* empty domain: once the values are initialized, no iteration of the loop
\* fails for want of a candidate variable or a candidate value.
C15_NoFailureOutcome ==
    (proc = "ls" /\ pc = "raised") => HasEmptyDomain(heap, problem)

\* ---------------------------------------------------------------- NQueens
\* the n of the 4-queens scenario
QueensN == 4
QueensVars == 0..(QueensN - 1)
\* generate_constraint without the test of the diagonals
generate_constraint_columns_only(var1, var2) ==
    {p \in QueensVars \X QueensVars : p[1] # p[2]}
\* NQueens.generate_constraint(var1, var2), var1 < var2:
\* val1 != val2 and abs(val2 - val1) != var2 - var1
generate_constraint(var1, var2) ==
    {p \in QueensVars \X QueensVars :
        /\ p[1] # p[2]
        /\ (IF p[2] >= p[1] THEN p[2] - p[1] ELSE p[1] - p[2]) # var2 - var1}
\* the constraints dictionary NQueens.__init__ fills for n rows
QueensConstraints(n) ==
    [pair \in {p \in (0..(n - 1)) \X (0..(n - 1)) : p[1] < p[2]} |->
        generate_constraint(pair[1], pair[2])]

\* NQueens(n) for n up to 4: no value assigned, every domain [0, ..., n - 1]
InitQueens ==
    /\ proc = "bts"
    /\ pc = "idle"
    /\ \E n \in 1..QueensN :
           heap = [d |-> 0 :> [row \in 0..(n - 1) |-> [k \in 1..n |-> k - 1]],
                   v |-> 0 :> [row \in 0..(n - 1) |-> None],
                   c |-> 0 :> QueensConstraints(n)]
    /\ problem = BinaryCSP(0, 0, 0, FALSE, FALSE)
    /\ args = NoArgs
    /\ fringe = {}
    /\ instantiation = NoInstance
    /\ iterations = 0
    /\ clone = NoInstance
    /\ call = NoCall

SpecQueens == InitQueens /\ [][NextBts]_vars

\* a list of columns as the values list of an instance
AsValues(cols) == [row \in 0..(Len(cols) - 1) |-> cols[row + 1]]
\* the complete assignments is_solution accepts for the constraints of the root
QueensSolutions ==
    {a \in [QueensVars -> QueensVars] :
        is_solution([d |-> heap.d, v |-> problem.values :> a, c |-> heap.c], problem)}
RECURSIVE QueensMeasureOf(_, _)
QueensMeasureOf(M, q) ==
    IF q = {} THEN 0
    ELSE LET e == CHOOSE x \in q : TRUE
         IN  Power(QueensN + 1, Cardinality(unassigned(M, e.item)))
             + QueensMeasureOf(M, q \ {e})

\* the root is the 4-queens problem
IsFourQueens == proc = "bts" /\ len(heap.v[problem.values]) = QueensN

\* C16: the 4-queens scenario.  is_solution accepts exactly the two complete
\* assignments [1, 3, 0, 2] and [2, 0, 3, 1]; with every filtering, variable
\* order and value order a search never reports "no solution" and never ends
\* in an exception, every iteration lowers a natural-number weight of the
\* fringe (so the search ends), and the instance it ends with holds one of the
\* two assignments.
C16_FourQueens ==
    /\ [](IsFourQueens =>
              /\ QueensSolutions = {AsValues(<<1, 3, 0, 2>>), AsValues(<<2, 0, 3, 1>>)}
              /\ pc = "solved" => Values(heap, instantiation)
                                      \in {AsValues(<<1, 3, 0, 2>>), AsValues(<<2, 0, 3, 1>>)}
              /\ pc # "no_solution"
              /\ pc = "raised" => args.filtering = "other")
    /\ [][(IsFourQueens /\ IsIterate)
              => QueensMeasureOf(heap', fringe') < QueensMeasureOf(heap, fringe)]_vars
C16_Witness ==
    /\ IsFourQueens /\ pc = "solved" /\ args.filtering = "ac"
    /\ args.pick_next_var = "mrv" /\ args.order_values = "lcv"
    /\ Values(heap, instantiation) \in QueensSolutions

\* ---------------------------------------------------------------- arc consistency
\* the stored predicate of the pair accepts tail = tail_val with head = head_val
Supports(table, tail, tail_val, head, head_val) ==
    IF tail < head THEN <<tail_val, head_val>> \in table[<<tail, head>>]
    ELSE <<head_val, tail_val>> \in table[<<head, tail>>]
\* the ordered pairs of distinct variables that have a stored predicate
ConstrainedArcs(table) ==
    {a \in (0..(NumVars - 1)) \X (0..(NumVars - 1)) :
        a[1] # a[2] /\ (<<a[1], a[2]>> \in DOMAIN table \/ <<a[2], a[1]>> \in DOMAIN table)}
\* every value of the tail has a value of the head that the predicate accepts
ArcConsistent(domains, table) ==
    \A a \in ConstrainedArcs(table) :
        \A tail_val \in Elems(domains[a[1]]) :
            \E head_val \in Elems(domains[a[2]]) : Supports(table, a[1], tail_val, a[2], head_val)

\* C17: arc-consistency fixpoint.  When check_all_arcs has returned, every
\* value left in the domain of a tail has a non-conflicting value in the domain
\* of every head it has a stored predicate with; so if a domain is empty, the
\* domain of every variable constrained with it is empty too.
C17_Fixpoint ==
    (proc = "api" /\ pc = "done" /\ call.name = "check_all_arcs")
        => /\ ArcConsistent(Domains(heap, call.self), heap.c[call.self.constraints])
           /\ \A a \in ConstrainedArcs(heap.c[call.self.constraints]) :
                  Domains(heap, call.self)[a[2]] = <<>> => Domains(heap, call.self)[a[1]] = <<>>
C17_Witness ==
    /\ proc = "api" /\ pc = "done" /\ call.name = "check_all_arcs"
    /\ ~HasEmptyDomain(heap, call.self)
    /\ \E var \in unassigned(heap, call.self) :
           Len(Domains(heap, call.self)[var]) < Len(FullDomain)
    /\ ArcConsistent(Domains(heap, call.self), heap.c[call.self.constraints])

\* ---------------------------------------------------------------- the worklist
\* run_arc_consistency(arcs) called on the original with a list of the caller:
\* the while loop is then followed by ArcStep and ArcReturn
RunArcConsistency(arcs) ==
    /\ proc = "api" /\ pc = "ready"
    /\ call' = [NoCall EXCEPT !.name = "run_arc_consistency", !.self = problem, !.arcs = arcs]
    /\ pc' = "run_arc_consistency"
    /\ UNCHANGED <<heap, clone>>
    /\ ApiFrame
\* the lists the caller passes: the arcs into a variable, as set_var_val passes
\* them, and an arc listed twice
InitialArcs ==
    {arcs_into(heap, problem, var) : var \in 0..(NumVars - 1)}
        \cup {<<a, a>> : a \in {p \in (0..(NumVars - 1)) \X (0..(NumVars - 1)) : p[1] # p[2]}}
NextArcs == NextApi \/ \E arcs \in InitialArcs : RunArcConsistency(arcs)
SpecArcs == InitApi /\ [][NextArcs]_vars

\* the step is an iteration of the while loop of run_arc_consistency
IsArcStep == proc = "api" /\ pc = "run_arc_consistency" /\ pc' = "run_arc_consistency"
\* n times the number of values left, plus the number of pending arcs
ArcMeasure(domains, arcs) ==
    len(domains) * SumSeq([k \in 1..len(domains) |-> Len(domains[k - 1])]) + Len(arcs)
\* what one iteration does to the list: pending is the list after the first
\* arc (tail, head) was taken off, next the list after the iteration
RequeuedByShrink(before, after, tail, pending, next) ==
    LET added == SubSeq(next, Len(pending) + 1, Len(next))
    IN  /\ Len(next) >= Len(pending) /\ SubSeq(next, 1, Len(pending)) = pending
        /\ \A var \in DOMAIN before : var # tail => after[var] = before[var]
        /\ IF Len(after[tail]) < Len(before[tail])
           THEN /\ \A k \in 1..Len(added) :
                       /\ added[k][2] = tail /\ added[k][1] # tail
                       /\ added[k] \notin Elems(pending)
                       /\ \A j \in 1..Len(added) : j # k => added[j] # added[k]
                /\ \A var \in DOMAIN before :
                       var # tail => <<var, tail>> \in Elems(next)
           ELSE after = before /\ added = <<>>

\* C18: worklist termination.  Every iteration of run_arc_consistency lowers
\* a natural number (n times the values left in the domains, plus the pending
\* arcs), so the list empties and the call returns; an iteration appends arcs
\* only when enforce_arc made the domain of the tail shorter, the arcs it
\* appends point into that tail, and none of them was pending already or is
\* appended twice.
C18_WorklistTermination ==
    [][IsArcStep =>
          /\ ArcMeasure(Domains(heap', call.self), call'.arcs)
                 < ArcMeasure(Domains(heap, call.self), call.arcs)
          /\ RequeuedByShrink(Domains(heap, call.self), Domains(heap', call.self),
                              call.arcs[1][1], Tail(call.arcs), call'.arcs)]_vars
C18_Witness ==
    /\ proc = "api" /\ pc = "run_arc_consistency" /\ call.name = "run_arc_consistency"
    /\ call.ret /\ Len(call.arcs) >= NumVars
    /\ call.arcs[Len(call.arcs)][2] = call.var

\* ---------------------------------------------------------------- forward checking and arc consistency
\* other = v does not conflict with var = val: no predicate is stored for the
\* pair, or the predicate accepts the two values
Agrees(table, other, v, var, val) ==
    \/ (<<other, var>> \notin DOMAIN table /\ <<var, other>> \notin DOMAIN table)
    \/ Supports(table, other, v, var, val)
\* before: the domains before set_var_val(var, val); fc and ac: the domains
\* after it in forward-checking mode and in arc-consistency mode
WeakerThanAC(table, before, fc, ac, var, val) ==
    /\ fc[var] = <<val>>
    /\ \A other \in DOMAIN before \ {var} :
           fc[other] = SelectSeq(before[other], LAMBDA v : Agrees(table, other, v, var, val))
    /\ \A other \in DOMAIN before : SubList(ac[other], fc[other])

\* C19: forward checking is weaker than arc-consistency propagation.  For
\* every set_var_val(var, val) the caller makes that does not raise: from the
\* state before the call, forward-checking mode leaves in the domain of every
\* other variable exactly the values that do not conflict with var = val, every
\* domain that arc-consistency mode leaves is a sublist of the one
\* forward-checking mode leaves, and the call made has the result of its mode.
C19_ForwardCheckWeaker ==
    [][(proc = "api" /\ pc \in {"ready", "copied"} /\ call'.name = "set_var_val" /\ ~call'.raised)
          => \A fc \in {set_var_val(heap, [call'.self EXCEPT !.use_forward_checking = TRUE,
                                                               !.use_arc_consistency = FALSE],
                                    call'.var, call'.val).M.d[call'.self.domains]} :
             \A ac \in {set_var_val(heap, [call'.self EXCEPT !.use_forward_checking = FALSE,
                                                               !.use_arc_consistency = TRUE],
                                    call'.var, call'.val).M.d[call'.self.domains]} :
                 /\ WeakerThanAC(heap.c[call'.self.constraints], Domains(heap, call'.self),
                                 fc, ac, call'.var, call'.val)
                 /\ call'.self.use_forward_checking => Domains(heap', call'.self) = fc
                 /\ (call'.self.use_arc_consistency /\ ~call'.self.use_forward_checking)
                        => Domains(heap', call'.self) = ac]_vars
C19_Witness ==
    /\ proc = "api" /\ call.name = "set_var_val" /\ ~call.raised
    /\ call.self.use_arc_consistency
    /\ Assigned(heap, call.self) = {call.var}
    /\ \E other \in unassigned(heap, call.self), v \in Val :
           /\ Agrees(heap.c[call.self.constraints], other, v, call.var, call.val)
           /\ v \notin Elems(Domains(heap, call.self)[other])

\* ---------------------------------------------------------------- the step of local search
\* the step is an iteration of the while loop of iterative_improvement: the
\* loop condition `not problem.is_solution()` holds before it
IsLsIteration == proc = "ls" /\ pc = "loop" /\ ~is_solution(heap, problem)
\* one variable gets another value of its domain, nothing else changes
StepEffect(before, after) ==
    /\ after.d = before.d /\ after.c = before.c
    /\ \E var \in DOMAIN before.v[problem.values] :
           /\ after.v[problem.values][var] # before.v[problem.values][var]
           /\ after.v[problem.values][var] \in Elems(before.d[problem.domains][var])
           /\ \A other \in DOMAIN before.v[problem.values] \ {var} :
                  after.v[problem.values][other] = before.v[problem.values][other]

\* C20: the effect of a step of local search.  Every iteration of the loop
\* gives exactly one variable another value of its domain, leaves every domain
\* and every other value as it was, and adds one to the iteration count; and
\* once the values are initialized every value is a member of its variable's
\* domain.
C20_StepEffect ==
    /\ [][IsLsIteration => (StepEffect(heap, heap') /\ iterations' = iterations + 1)]_vars
    /\ [](proc = "ls" /\ pc = "loop"
              => \A var \in DOMAIN Values(heap, problem) :
                     Values(heap, problem)[var] \in Elems(Domains(heap, problem)[var]))

\* ---------------------------------------------------------------- maintained arc consistency
\* the instances on the fringe of an arc-consistency search
OnFrontier == IF proc = "bts" /\ args.filtering = "ac" THEN Items(fringe) ELSE {}
\* no domain is empty and every value of every tail has a support in every
\* head the tail has a stored predicate with
FullyArcConsistent(M, self) ==
    /\ ~HasEmptyDomain(M, self)
    /\ ArcConsistent(Domains(M, self), M.c[self.constraints])

\* C21: maintained arc consistency.  In a search with filtering "ac" on a root
\* that has no value assigned, every instance on the fringe (the root after
\* check_all_arcs, and every clone kept after set_var_val) has no empty domain
\* and is arc consistent on every ordered pair that has a stored predicate.
C21_MaintainedArcConsistency ==
    (proc = "bts" /\ unassigned(heap, problem) = 0..(NumVars - 1))
        => \A inst \in OnFrontier : FullyArcConsistent(heap, inst)

====
